---- MODULE Spec2Model ----
(***************************************************************************)
(* The campaign data pipeline of the NovaMind marketing newsletter tool:   *)
(* generated_content.json -> persona map -> campaign_log.json ->           *)
(* performance_log.json, with the text-generation and the email-delivery   *)
(* collaborators as nondeterministic inputs.                               *)
(*                                                                         *)
(* JSON objects (Python dicts) are functions from keys to values, so that  *)
(* dict.get(k, default) and dict.setdefault can test DOMAIN.  A JSON file  *)
(* is a record [kind, items]: kind says what json.load makes of it.        *)
(***************************************************************************)
EXTENDS Integers, Sequences, FiniteSets, TLC

VARIABLES
  contentFile,   \* generated_content.json
  campaignFile,  \* campaign_log.json
  perfFile,      \* performance_log.json
  pc,            \* "idle", or "bulk" inside orchestrate_campaign's loop
  bulk,          \* the locals of orchestrate_campaign
  res,           \* what the last finished operation returned or raised
  calls,         \* delivery calls (session.post) of the current operation
  writes,        \* writes of campaign_log.json by the current operation
  preLog,        \* campaign_log.json as the current operation found it
  outcomes,      \* per contact of the current bulk run: what became of it
  appended,      \* the entries handed to the two save functions so far
  tagCall,       \* _slugify_tag: the call and its result
  pkgCall,       \* generate_topic_package: the call and its result
  rerun          \* the operation that ended last was analyze_performance
                 \* returning right after analyze_performance had returned

vars == <<contentFile, campaignFile, perfFile, pc, bulk, res,
          calls, writes, preLog, outcomes, appended, tagCall, pkgCall,
          rerun>>

-----------------------------------------------------------------------------
(* Bounds of the model.                                                    *)

MaxContent == 2    \* entries the content log may hold
MaxLog == 2        \* entries the delivery log may hold
MaxTime == 1       \* distinct clock readings
MaxLen == 4        \* characters of a tag input
MaxLines == 3      \* lines of a model response
MaxAggLog == 3     \* entries of a delivery log handed to the aggregator

Times == 1..MaxTime

-----------------------------------------------------------------------------
(* Dicts and JSON files.                                                   *)

Has(d, k) == k \in DOMAIN d

\* str truthiness of a .get() result: a missing key, None and "" are falsy
Truthy(d, k) == Has(d, k) /\ d[k] # "" /\ d[k] # "null"

AbsentFile == [kind |-> "absent", items |-> <<>>]
InvalidFile == [kind |-> "invalid", items |-> <<>>]
ObjectFile(obj) == [kind |-> "object", items |-> <<obj>>]

\* json.dump(list, f): the file then holds a JSON array
JsonDumpList(list) == [kind |-> "array", items |-> list]

\* the bug of leaving out the isinstance(existing, dict) wrap
ReadExistingArrayOnly(file) ==
  IF file.kind # "array" THEN <<>> ELSE file.items

\* the read half of both save functions: a missing file and a file that does
\* not parse give [], a single object is wrapped into a one-element list
ReadExisting(file) ==
  IF file.kind \in {"absent", "invalid"} THEN <<>> ELSE file.items

\* isinstance(exc, ValueError): json.JSONDecodeError subclasses ValueError
IsValueError(class) == class \in {"ValueError", "JSONDecodeError"}

-----------------------------------------------------------------------------
(* Strings.  Persona labels are atomic strings; str.lower() and            *)
(* str.replace(' ', '-') are tabulated over the labels in use.             *)

Lower(s) ==
  CASE s = "Startup Founder" -> "startup founder"
    [] s = "STARTUP FOUNDER" -> "startup founder"
    [] s = "Enterprise Marketing Director" -> "enterprise marketing director"
    [] s = "Freelance Creative Strategist" -> "freelance creative strategist"
    [] s = "Unknown Persona" -> "unknown persona"
    [] s = "Persona 1" -> "persona 1"
    [] s = "Persona 2" -> "persona 2"
    [] s = "Persona 3" -> "persona 3"
    [] OTHER -> s

Hyphenate(s) ==
  CASE s = "startup founder" -> "startup-founder"
    [] s = "enterprise marketing director" -> "enterprise-marketing-director"
    [] s = "freelance creative strategist" -> "freelance-creative-strategist"
    [] s = "unknown persona" -> "unknown-persona"
    [] s = "persona 1" -> "persona-1"
    [] s = "persona 2" -> "persona-2"
    [] s = "persona 3" -> "persona-3"
    [] OTHER -> s

Str(n) ==
  CASE n = 1 -> "1" [] n = 2 -> "2" [] n = 3 -> "3" [] OTHER -> "n"

\* f"Persona {idx}"
DefaultPersona(idx) ==
  CASE idx = 1 -> "Persona 1" [] idx = 2 -> "Persona 2" [] OTHER -> "Persona 3"

-----------------------------------------------------------------------------
(* The data the operations are run on.                                     *)

Letter(persona, subject) == [persona |-> persona, subject_line |-> subject]

\* three newsletters, one per persona brief of the prompt
PkgScenario ==
  [topic |-> "AI in Marketing",
   newsletters |-> <<Letter("Startup Founder", "s1"),
                     Letter("Enterprise Marketing Director", "s2"),
                     Letter("Freelance Creative Strategist", "s3")>>]

\* no topic of its own; a newsletter, a second one tagged in lower case that
\* collides with it after normalization and carries its own newsletter_id,
\* and one without persona
PkgLower ==
  [newsletters |-> <<Letter("Startup Founder", "upper"),
                     [persona |-> "startup founder", subject_line |-> "lower",
                      newsletter_id |-> <<"founder-special">>],
                     [subject_line |-> "nameless"]>>]

\* what generate_topic_package returns when the model's output does not parse
PkgError ==
  [topic |-> "Growth Loops", error |-> "Model did not return valid JSON."]

\* (topic, package) pairs handed to save_generated_content
AppendInputs ==
  { <<"AI in Marketing", PkgScenario>>, <<"Growth Loops", PkgLower>>,
    <<"Growth Loops", PkgError>> }

Contact(email, persona) == [email |-> email, persona |-> persona]

ContactSet ==
  { Contact("a@x.com", "Startup Founder"), Contact("b@x.com", "Unknown Persona"),
    Contact("b@x.com", "STARTUP FOUNDER"), Contact("a@x.com", "") }

SAMPLE_CONTACTS ==
  << Contact("founder@example.com", "Startup Founder"),
     Contact("director@example.com", "Enterprise Marketing Director"),
     Contact("creative@example.com", "Freelance Creative Strategist") >>

ContactLists ==
  { <<>>,
    <<Contact("a@x.com", "Startup Founder"), Contact("b@x.com", "Unknown Persona")>>,
    <<Contact("a@x.com", ""), Contact("b@x.com", "STARTUP FOUNDER")>>,
    <<Contact("b@x.com", "STARTUP FOUNDER"), Contact("a@x.com", "Startup Founder")>> }

\* contacts.json as load_contacts may find it
ContactFiles ==
  {AbsentFile, InvalidFile}
    \cup { ObjectFile(Contact("a@x.com", "Startup Founder")) }
    \cup { JsonDumpList(cs) : cs \in ContactLists }

\* what the delivery provider does with one POST: the transport fails, or a
\* response with a status and a body comes back
Response(status, body) == [transport |-> "ok", status |-> status, body |-> body]

Responses ==
  { [transport |-> "failed", status |-> 0, body |-> "none"],
    Response(200, "object_with_id"), Response(200, "object_without_id"),
    Response(200, "array"), Response(200, "not_json"),
    Response(202, "object_with_id"), Response(202, "not_json"),
    Response(422, "object_without_id"), Response(500, "not_json") }

\* a timestamp string: whether datetime.fromisoformat parses it, and to what
Iso(t) == [iso |-> TRUE, utc |-> t]
NotIso == [iso |-> FALSE, utc |-> 0]

-----------------------------------------------------------------------------
(* crm_newsletter.py                                                       *)

LoadContacts(file) ==
  IF file.kind \in {"absent", "invalid"} THEN SAMPLE_CONTACTS ELSE file.items

RECURSIVE PersonaMapFrom(_, _, _)
PersonaMapFrom(newsletters, idx, persona_map) ==
  IF idx > Len(newsletters) THEN persona_map
  ELSE
    LET letter == newsletters[idx]
        persona == IF Has(letter, "persona") THEN letter.persona
                   ELSE DefaultPersona(idx)
        normalized == Lower(persona)
        withId == IF Has(letter, "newsletter_id") THEN letter
                  ELSE [k \in DOMAIN letter \cup {"newsletter_id"} |->
                          IF k = "newsletter_id"
                            THEN <<Hyphenate(normalized), Str(idx)>>
                            ELSE letter[k]]
    IN PersonaMapFrom(newsletters, idx + 1,
         [k \in DOMAIN persona_map \cup {normalized} |->
            IF k = normalized THEN withId ELSE persona_map[k]])

\* the bug of taking data[0]
OldestEntry(data) == data[1]

\* data[-1]
LatestEntry(data) == data[Len(data)]

CampaignOf(latest_entry) ==
  LET package == IF Has(latest_entry, "content_package")
                   THEN latest_entry.content_package ELSE latest_entry
      topic == IF Truthy(package, "topic") THEN package.topic
               ELSE IF Has(latest_entry, "topic") THEN latest_entry.topic
               ELSE "Untitled Campaign"
      newsletters == IF Has(package, "newsletters") THEN package.newsletters
                     ELSE <<>>
  IN [blog_title |-> topic,
      newsletters |-> PersonaMapFrom(newsletters, 1, <<>>)]

NoCampaign == [blog_title |-> "", newsletters |-> <<>>]

\* raises FileNotFoundError, json.JSONDecodeError or ValueError (empty), or
\* returns the campaign built from the last element
load_latest_campaign(file) ==
  IF file.kind = "absent"
    THEN [error |-> "NotFound", class |-> "FileNotFoundError",
          campaign |-> NoCampaign]
  ELSE IF file.kind = "invalid"
    THEN [error |-> "ParseError", class |-> "JSONDecodeError",
          campaign |-> NoCampaign]
  ELSE IF file.items = <<>>
    THEN [error |-> "EmptyLog", class |-> "ValueError", campaign |-> NoCampaign]
  ELSE [error |-> "none", class |-> "none",
        campaign |-> CampaignOf(LatestEntry(file.items))]

\* the bug of writing the new entries over the old ones
SaveOverwriting(file, entries) == JsonDumpList(entries)

\* existing.extend(entries); json.dump(existing, f)
save_local_campaign_log(file, entries) ==
  JsonDumpList(ReadExisting(file) \o entries)

\* the bug of putting the new entry first
SaveNewestFirst(file, topic, package, now) ==
  JsonDumpList(<<[timestamp |-> now, topic |-> topic, content_package |-> package]>>
                 \o ReadExisting(file))

\* ai_generator.save_generated_content:
\* existing_data.append(new_entry); json.dump(existing_data, f)
save_generated_content(file, topic, package, now) ==
  JsonDumpList(Append(ReadExisting(file),
    [timestamp |-> now, topic |-> topic, content_package |-> package]))

\* ResendClient.send: the exception it raises, or the parsed response body
ResendSend(response) ==
  IF response.transport = "failed"
    THEN [error |-> "TransportFailure", class |-> "ConnectionError", json |-> "none"]
  ELSE IF response.status \notin {200, 202}
    THEN [error |-> "DeliveryRejected", class |-> "RuntimeError", json |-> "none"]
  ELSE IF response.body = "not_json"
    THEN [error |-> "MalformedResponse", class |-> "JSONDecodeError", json |-> "none"]
  ELSE [error |-> "none", class |-> "none", json |-> response.body]

NoEntry == [email |-> "", persona |-> ""]

\* the bug of a case-sensitive lookup
PersonaKeyExact(persona_label) == persona_label

\* persona_label.lower(): the key the newsletter is looked up under
PersonaKey(persona_label) == Lower(persona_label)

\* _available_personas: letter.get("persona") of every newsletter, None for
\* a newsletter without one, and then ", ".join(...) raises TypeError
Joinable(persona_map) ==
  \A key \in DOMAIN persona_map : Has(persona_map[key], "persona")

\* _process_contact: error/class name what it raises ("none": it returns
\* entry); posted says whether resend.send was reached
ProcessContact(contact, persona_map, blog_title, response, now) ==
  LET persona_label == IF Has(contact, "persona") THEN contact.persona ELSE ""
  IN IF persona_label = ""
       THEN [error |-> "MissingPersona", class |-> "ValueError",
             posted |-> FALSE, entry |-> NoEntry]
     ELSE IF PersonaKey(persona_label) \notin DOMAIN persona_map
       THEN IF Joinable(persona_map)
              THEN [error |-> "UnknownPersona", class |-> "ValueError",
                    posted |-> FALSE, entry |-> NoEntry]
              ELSE [error |-> "UnknownPersona", class |-> "TypeError",
                    posted |-> FALSE, entry |-> NoEntry]
     ELSE
       LET newsletter == persona_map[PersonaKey(persona_label)]
           send_result == ResendSend(response)
       IN IF send_result.error # "none"
            THEN [error |-> send_result.error, class |-> send_result.class,
                  posted |-> TRUE, entry |-> NoEntry]
          ELSE IF send_result.json = "array"
            THEN [error |-> "MalformedResponse", class |-> "AttributeError",
                  posted |-> TRUE, entry |-> NoEntry]
          ELSE [error |-> "none", class |-> "none", posted |-> TRUE,
                entry |->
                  [email |-> contact.email,
                   persona |-> persona_label,
                   newsletter_id |-> newsletter.newsletter_id,
                   blog_title |-> blog_title,
                   sent_at |-> Iso(now),
                   provider |-> "resend",
                   resend_id |-> IF send_result.json = "object_with_id"
                                   THEN "re_1" ELSE "null"]]

-----------------------------------------------------------------------------
(* performance_analysis.py                                                 *)

\* the bug of leaving out the "if not entries" check
LoadEntriesUnchecked(file) ==
  IF file.kind = "absent"
    THEN [error |-> "NotFound", class |-> "FileNotFoundError", entries |-> <<>>]
  ELSE IF file.kind = "invalid"
    THEN [error |-> "ParseError", class |-> "JSONDecodeError", entries |-> <<>>]
  ELSE [error |-> "none", class |-> "none", entries |-> file.items]

\* raises FileNotFoundError, json.JSONDecodeError or ValueError (empty), or
\* returns the entries
_load_campaign_entries(file) ==
  IF file.kind = "absent"
    THEN [error |-> "NotFound", class |-> "FileNotFoundError", entries |-> <<>>]
  ELSE IF file.kind = "invalid"
    THEN [error |-> "ParseError", class |-> "JSONDecodeError", entries |-> <<>>]
  ELSE IF file.items = <<>>
    THEN [error |-> "EmptyLog", class |-> "ValueError", entries |-> <<>>]
  ELSE [error |-> "none", class |-> "none", entries |-> file.items]

NoStats ==
  [send_count |-> 0, unique_contacts |-> {}, latest_blog |-> "null",
   last_sent_at |-> [set |-> FALSE, utc |-> 0]]

\* the loop of _aggregate_performance over entries[i..], on a defaultdict
RECURSIVE AggregateFrom(_, _, _)
AggregateFrom(entries, i, persona_stats) ==
  IF i > Len(entries) THEN persona_stats
  ELSE
    LET entry == entries[i]
        persona == IF Has(entry, "persona") THEN entry.persona ELSE "Unknown"
        stats == IF persona \in DOMAIN persona_stats
                   THEN persona_stats[persona] ELSE NoStats
        email == IF Has(entry, "email") THEN entry.email ELSE "null"
        later == /\ Has(entry, "sent_at")
                 /\ entry.sent_at.iso
                 /\ \/ ~stats.last_sent_at.set
                    \/ entry.sent_at.utc > stats.last_sent_at.utc
        updated ==
          [send_count |-> stats.send_count + 1,
           unique_contacts |-> stats.unique_contacts \cup {email},
           latest_blog |-> IF Has(entry, "blog_title") THEN entry.blog_title
                           ELSE "null",
           last_sent_at |-> IF later THEN [set |-> TRUE, utc |-> entry.sent_at.utc]
                            ELSE stats.last_sent_at]
    IN AggregateFrom(entries, i + 1,
         [p \in DOMAIN persona_stats \cup {persona} |->
            IF p = persona THEN updated ELSE persona_stats[p]])

\* the second loop: sets and dates become serializable values
Serializable(persona_stats) ==
     [p \in DOMAIN persona_stats |->
        [send_count |-> persona_stats[p].send_count,
         unique_contacts |->
           Cardinality({e \in persona_stats[p].unique_contacts :
                          e # "" /\ e # "null"}),
         latest_blog |-> persona_stats[p].latest_blog,
         last_sent_at |-> IF persona_stats[p].last_sent_at.set
                            THEN Iso(persona_stats[p].last_sent_at.utc)
                            ELSE NotIso]]

\* the bug of counting only the entries whose sent_at parses
AggregateParsedOnly(entries) ==
  LET all == Serializable(AggregateFrom(entries, 1, <<>>))
      parsed == Serializable(AggregateFrom(
                  SelectSeq(entries, LAMBDA e : Has(e, "sent_at") /\ e.sent_at.iso),
                  1, <<>>))
  IN [p \in DOMAIN all |->
        IF p \in DOMAIN parsed THEN parsed[p]
        ELSE [all[p] EXCEPT !.send_count = 0, !.unique_contacts = 0]]

_aggregate_performance(entries) == Serializable(AggregateFrom(entries, 1, <<>>))

\* the personas in the order the dict got them: first occurrence in the log
RECURSIVE PersonaOrder(_, _, _)
PersonaOrder(entries, i, seen) ==
  IF i > Len(entries) THEN seen
  ELSE
    LET persona == IF Has(entries[i], "persona") THEN entries[i].persona
                   ELSE "Unknown"
    IN PersonaOrder(entries, i + 1,
         IF \E j \in 1..Len(seen) : seen[j] = persona THEN seen
         ELSE Append(seen, persona))

\* max(performance.items(), key=send_count): the first of the largest
BestPersona(entries, performance) ==
  LET order == PersonaOrder(entries, 1, <<>>)
      best == CHOOSE j \in 1..Len(order) :
                /\ \A k \in 1..Len(order) :
                     performance[order[k]].send_count
                       <= performance[order[j]].send_count
                /\ \A k \in 1..(j - 1) :
                     performance[order[k]].send_count
                       < performance[order[j]].send_count
  IN IF order = <<>> THEN "null" ELSE order[best]

\* what the text-generation collaborator does with one request: it answers
\* with a text, the call raises, or it answers with no content
LlmBehaviours == {"answers", "raises", "no_content"}

\* _build_summary: the collaborator answers, or the call raises, or
\* message.content is None and .strip() raises AttributeError
BuildSummary(entries, performance, llm) ==
  IF llm = "raises"
    THEN [raised |-> TRUE, text |-> "connection error",
          most_volume |-> BestPersona(entries, performance)]
  ELSE IF llm = "no_content"
    THEN [raised |-> TRUE, text |-> "'NoneType' object has no attribute 'strip'",
          most_volume |-> BestPersona(entries, performance)]
  ELSE [raised |-> FALSE, text |-> "summary text",
        most_volume |-> BestPersona(entries, performance)]

\* the bug of returning the bare message of the exception
SummaryBare(summary) == <<summary.text>>

\* analyze_performance, lines 103-106: try _build_summary, except Exception
SummaryOrError(summary) ==
  IF summary.raised
    THEN <<"Error generating AI summary: ", summary.text>>
    ELSE <<summary.text>>

AbsentSnapshot == [kind |-> "absent", value |-> <<>>]

\* the bug of updating the snapshot that is on disk instead of replacing it
PersistMerged(performance) ==
  [kind |-> "object",
   value |-> [p \in DOMAIN perfFile.value \cup DOMAIN performance |->
                IF p \in DOMAIN performance THEN performance[p]
                ELSE perfFile.value[p]]]

\* json.dump(performance, f): a full overwrite
_persist_performance(performance) == [kind |-> "object", value |-> performance]

-----------------------------------------------------------------------------
(* The operations.                                                         *)

Result(op, error, class, value) ==
  [op |-> op, error |-> error, class |-> class, value |-> value]

NoBulk ==
  [contacts |-> <<>>, i |-> 0, log_entries |-> <<>>,
   persona_map |-> <<>>, blog_title |-> ""]

ContentLogEntry(topic, package, now) ==
  [timestamp |-> now, topic |-> topic, content_package |-> package]

\* every operation starts with the observers of the previous one cleared
Begin ==
  /\ pc = "idle"
  /\ preLog' = campaignFile
  /\ UNCHANGED <<tagCall, pkgCall>>

\* ContentStore Append: ai_generator.save_generated_content
AppendContent ==
  \E input \in AppendInputs, now \in Times :
    /\ Begin
    /\ Len(ReadExisting(contentFile)) < MaxContent
    /\ contentFile' = save_generated_content(contentFile, input[1], input[2], now)
    /\ appended' = [appended EXCEPT
                      !.content = Append(@, ContentLogEntry(input[1], input[2], now))]
    /\ res' = Result("append", "none", "none", "none")
    /\ calls' = 0 /\ writes' = 0 /\ outcomes' = <<>>
    /\ rerun' = FALSE
    /\ UNCHANGED <<campaignFile, perfFile, pc, bulk>>

\* LoadLatestCampaign: crm_newsletter.load_latest_campaign
LoadLatestCampaign ==
  /\ Begin
  /\ LET loaded == load_latest_campaign(contentFile)
     IN res' = Result("load", loaded.error, loaded.class, loaded.campaign)
  /\ calls' = 0 /\ writes' = 0 /\ outcomes' = <<>>
  /\ rerun' = FALSE
  /\ UNCHANGED <<contentFile, campaignFile, perfFile, pc, bulk, appended>>

\* ResendClient.__init__: raises ValueError when RESEND_API_KEY or
\* RESEND_FROM_EMAIL is not set (configured = FALSE)
ClientError == Result("send", "ConfigurationMissing", "ValueError", "none")

Accepted(response) ==
  response.transport = "ok" /\ response.status \in {200, 202}

\* what is observed of one contact's processing: whether the provider was
\* called, accepted the email (status 200 or 202) and answered with a JSON
\* object, and the entry _process_contact returned
Seen(contact, outcome, done, response) ==
  [contact |-> contact, outcome |-> outcome, error |-> done.error,
   posted |-> done.posted,
   accepted |-> done.posted /\ Accepted(response),
   answered |-> done.posted /\ Accepted(response)
                  /\ response.body \in {"object_with_id", "object_without_id"},
   entry |-> done.entry]

\* SendToContact: crm_newsletter.send_newsletter_to_contact
SendToContact ==
  \E contact \in ContactSet, response \in Responses, now \in Times,
     configured \in BOOLEAN :
    /\ Begin
    /\ Len(ReadExisting(campaignFile)) < MaxLog
    /\ LET loaded == load_latest_campaign(contentFile)
           done == ProcessContact(contact, loaded.campaign.newsletters,
                                  loaded.campaign.blog_title, response, now)
       IN IF loaded.error # "none"
            THEN /\ res' = Result("send", loaded.error, loaded.class, "none")
                 /\ calls' = 0 /\ writes' = 0 /\ outcomes' = <<>>
                 /\ UNCHANGED <<campaignFile, appended>>
          ELSE IF ~configured
            THEN /\ res' = ClientError
                 /\ calls' = 0 /\ writes' = 0 /\ outcomes' = <<>>
                 /\ UNCHANGED <<campaignFile, appended>>
          ELSE IF done.error # "none"
            THEN /\ res' = Result("send", done.error, done.class, "none")
                 /\ calls' = (IF done.posted THEN 1 ELSE 0)
                 /\ writes' = 0
                 /\ outcomes' = <<Seen(contact, "raised", done, response)>>
                 /\ UNCHANGED <<campaignFile, appended>>
          ELSE /\ campaignFile' = save_local_campaign_log(campaignFile, <<done.entry>>)
               /\ appended' = [appended EXCEPT !.campaign = Append(@, done.entry)]
               /\ res' = Result("send", "none", "none", done.entry)
               /\ calls' = 1 /\ writes' = 1
               /\ outcomes' = <<Seen(contact, "sent", done, response)>>
    /\ rerun' = FALSE
    /\ UNCHANGED <<contentFile, perfFile, pc, bulk>>

\* OrchestrateBulk, lines 215-221: contacts, campaign and client are set up
OrchestrateStart ==
  \E contactsFile \in ContactFiles, configured \in BOOLEAN :
    /\ Begin
    /\ LET contacts == LoadContacts(contactsFile)
           loaded == load_latest_campaign(contentFile)
       IN /\ Len(ReadExisting(campaignFile))
               + Cardinality({i \in 1..Len(contacts) :
                    Lower(contacts[i].persona) \in DOMAIN loaded.campaign.newsletters})
               <= MaxLog
          /\ IF loaded.error # "none"
               THEN /\ res' = Result("bulk", loaded.error, loaded.class, "none")
                    /\ UNCHANGED <<pc, bulk>>
             ELSE IF ~configured
               THEN /\ res' = [ClientError EXCEPT !.op = "bulk"]
                    /\ UNCHANGED <<pc, bulk>>
             ELSE /\ pc' = "bulk"
                  /\ bulk' = [contacts |-> contacts, i |-> 1, log_entries |-> <<>>,
                              persona_map |-> loaded.campaign.newsletters,
                              blog_title |-> loaded.campaign.blog_title]
                  /\ res' = Result("bulk", "running", "none", "none")
    /\ calls' = 0 /\ writes' = 0 /\ outcomes' = <<>>
    /\ rerun' = FALSE
    /\ UNCHANGED <<contentFile, campaignFile, perfFile, appended>>

\* OrchestrateBulk, lines 222-235: one turn of the loop over the contacts
OrchestrateContact ==
  \E response \in Responses, now \in Times :
    /\ pc = "bulk"
    /\ bulk.i <= Len(bulk.contacts)
    /\ LET contact == bulk.contacts[bulk.i]
           done == ProcessContact(contact, bulk.persona_map, bulk.blog_title,
                                  response, now)
           seen(outcome) == Seen(contact, outcome, done, response)
       IN /\ calls' = calls + (IF done.posted THEN 1 ELSE 0)
          /\ IF done.error = "none"
               THEN /\ bulk' = [bulk EXCEPT !.i = @ + 1,
                                            !.log_entries = Append(@, done.entry)]
                    /\ outcomes' = Append(outcomes, seen("sent"))
                    /\ UNCHANGED <<pc, res>>
             ELSE IF IsValueError(done.class)
               THEN \* except ValueError: print the warning, continue
                    /\ bulk' = [bulk EXCEPT !.i = @ + 1]
                    /\ outcomes' = Append(outcomes, seen("skipped"))
                    /\ UNCHANGED <<pc, res>>
             ELSE \* the exception leaves orchestrate_campaign
                  /\ pc' = "idle"
                  /\ bulk' = NoBulk
                  /\ outcomes' = Append(outcomes, seen("raised"))
                  /\ res' = Result("bulk", done.error, done.class, "none")
    /\ UNCHANGED <<contentFile, campaignFile, perfFile, writes,
                   preLog, appended, tagCall, pkgCall, rerun>>

\* OrchestrateBulk, lines 237-244: the batch is logged, if there is one
OrchestrateFinish ==
  /\ pc = "bulk"
  /\ bulk.i > Len(bulk.contacts)
  /\ IF bulk.log_entries # <<>>
       THEN /\ campaignFile' = save_local_campaign_log(campaignFile, bulk.log_entries)
            /\ appended' = [appended EXCEPT !.campaign = @ \o bulk.log_entries]
            /\ writes' = writes + 1
       ELSE UNCHANGED <<campaignFile, appended, writes>>
  /\ pc' = "idle"
  /\ bulk' = NoBulk
  /\ res' = Result("bulk", "none", "none", Len(bulk.log_entries))
  /\ UNCHANGED <<contentFile, perfFile, calls, preLog, outcomes,
                 tagCall, pkgCall, rerun>>

\* Aggregate: performance_analysis.analyze_performance.  The client of the
\* text-generation collaborator is constructed first, from OPENAI_API_KEY:
\* the variable is set, since analyze_performance is reached from
\* dashboard.py only, whose import of ai_generator has constructed the same
\* client from it.  The collaborator is called by _build_summary only.
AnalyzePerformance ==
  \E llm \in LlmBehaviours :
    /\ Begin
    /\ LET read == _load_campaign_entries(campaignFile)
           performance_data == _aggregate_performance(read.entries)
           summary == BuildSummary(read.entries, performance_data, llm)
       IN IF read.error # "none"
            THEN /\ res' = Result("analyze", read.error, read.class, "none")
                 /\ rerun' = FALSE
                 /\ UNCHANGED perfFile
            ELSE /\ perfFile' = _persist_performance(performance_data)
                 /\ res' = Result("analyze", "none", "none",
                                  [summary |-> SummaryOrError(summary),
                                   most_volume |-> summary.most_volume,
                                   performance |-> performance_data])
                 /\ rerun' = (res.op = "analyze" /\ res.error = "none")
    /\ calls' = 0 /\ writes' = 0 /\ outcomes' = <<>>
    /\ UNCHANGED <<contentFile, campaignFile, pc, bulk, appended>>

-----------------------------------------------------------------------------
(* ResendClient._slugify_tag.  A tag input is a sequence of characters.    *)

Alphabet == {"a", "Z", "7", "_", "-", "?", " "}

\* the class [A-Za-z0-9_-], over the characters in use
IsTagChar(c) ==
  c \in {"a", "Z", "c", "e", "g", "i", "m", "n", "o", "p", "r", "s"}
         \cup {"7"} \cup {"_", "-"}

TagInputs == UNION { [1..n -> Alphabet] : n \in 0..MaxLen }

\* re.sub(r"[^A-Za-z0-9_-]", "-", value)
ReplaceInvalid(value) ==
  [i \in 1..Len(value) |-> IF IsTagChar(value[i]) THEN value[i] ELSE "-"]

\* re.sub(r"-{2,}", "-", cleaned): every maximal run of hyphens becomes one
RECURSIVE CollapseHyphens(_)
CollapseHyphens(cleaned) ==
  IF Len(cleaned) < 2 THEN cleaned
  ELSE IF cleaned[1] = "-" /\ cleaned[2] = "-" THEN CollapseHyphens(Tail(cleaned))
  ELSE <<cleaned[1]>> \o CollapseHyphens(Tail(cleaned))

RECURSIVE StripLeft(_)
StripLeft(cleaned) ==
  IF cleaned # <<>> /\ cleaned[1] = "-" THEN StripLeft(Tail(cleaned)) ELSE cleaned

RECURSIVE StripRight(_)
StripRight(cleaned) ==
  IF cleaned # <<>> /\ cleaned[Len(cleaned)] = "-"
    THEN StripRight(SubSeq(cleaned, 1, Len(cleaned) - 1))
    ELSE cleaned

\* the bug of str.lstrip("-")
StripLeftOnly(cleaned) == StripLeft(cleaned)

\* str.strip("-")
StripHyphens(cleaned) == StripRight(StripLeft(cleaned))

\* value is [none, chars]: None, or a string
_slugify_tag(value, fallback) ==
  LET given == IF value.none THEN <<>> ELSE value.chars
      cleaned == StripHyphens(CollapseHyphens(ReplaceInvalid(given)))
  IN IF cleaned = <<>> THEN fallback ELSE cleaned

\* the two fallbacks ResendClient.send passes
Fallback(tag) ==
  IF tag = "persona" THEN <<"p", "e", "r", "s", "o", "n", "a">>
  ELSE <<"c", "a", "m", "p", "a", "i", "g", "n">>

TagIdle == [done |-> FALSE, tag |-> "persona",
            value |-> [none |-> TRUE, chars |-> <<>>], result |-> <<>>]

\* ResendClient.send, lines 144-145: a tag value is computed for the payload
SlugifyTag ==
  /\ ~tagCall.done
  /\ tagCall' = [tagCall EXCEPT
                   !.done = TRUE,
                   !.result = _slugify_tag(tagCall.value, Fallback(tagCall.tag))]
  /\ UNCHANGED <<contentFile, campaignFile, perfFile, pc, bulk, res, calls,
                 writes, preLog, outcomes, appended, pkgCall, rerun>>

-----------------------------------------------------------------------------
(* ai_generator.generate_topic_package.  A model response is a sequence of *)
(* lines; a line is a code fence (the three backquotes are written ~~~), a  *)
(* whole JSON document, or prose.                                          *)

Lines == {"~~~json", "~~~", "{topic, newsletters}", "{newsletters}", "[]",
          "Here is the JSON:"}

IsFence(line) == line \in {"~~~json", "~~~"}

ModelTexts == UNION { [1..n -> Lines] : n \in 0..MaxLines }

\* what the collaborator does: the call raises, or returns text
ModelBehaviours ==
  {[raises |-> TRUE, text |-> <<>>]}
    \cup {[raises |-> FALSE, text |-> t] : t \in ModelTexts}

\* clean_json_blob: the lines starting with a fence go, if the text starts so
clean_json_blob(raw_text) ==
  IF raw_text # <<>> /\ IsFence(raw_text[1])
    THEN SelectSeq(raw_text, LAMBDA line : ~IsFence(line))
    ELSE raw_text

\* json.loads: one document and nothing else, or JSONDecodeError
JsonLoads(text) ==
  IF Len(text) # 1 THEN [kind |-> "invalid", value |-> <<>>]
  ELSE IF text[1] = "{topic, newsletters}"
    THEN [kind |-> "object",
          value |-> [topic |-> "Model Topic", newsletters |-> <<>>]]
  ELSE IF text[1] = "{newsletters}"
    THEN [kind |-> "object", value |-> [newsletters |-> <<>>]]
  ELSE IF text[1] = "[]"
    THEN [kind |-> "array", value |-> <<>>]
  ELSE [kind |-> "invalid", value |-> <<>>]

\* dict.setdefault(key, value)
SetDefault(d, key, value) ==
  IF Has(d, key) THEN d
  ELSE [k \in DOMAIN d \cup {key} |-> IF k = key THEN value ELSE d[k]]

Returned(package) == [raised |-> "none", package |-> package]
Raised(class) == [raised |-> class, package |-> <<>>]

generate_topic_package(topic, model) ==
  IF model.raises
    THEN Returned([topic |-> topic,
                   error |-> <<"API call failed: ", "connection error">>])
  ELSE
    LET raw_output == model.text
        parsed == JsonLoads(clean_json_blob(raw_output))
        structured ==
          IF parsed.kind = "invalid"
            THEN [topic |-> topic,
                  error |-> <<"Model did not return valid JSON.">>,
                  raw_output |-> raw_output]
            ELSE parsed.value
    IN IF parsed.kind = "array"
         THEN \* a list has no setdefault
              Raised("AttributeError")
         ELSE Returned(SetDefault(SetDefault(structured, "topic", topic),
                                  "raw_output", raw_output))

PkgIdle == [done |-> FALSE, topic |-> "", model |-> [raises |-> TRUE, text |-> <<>>],
            result |-> Raised("none")]

\* BuildPackage: one call of generate_topic_package
GenerateTopicPackage ==
  /\ ~pkgCall.done
  /\ pkgCall' = [pkgCall EXCEPT
                   !.done = TRUE,
                   !.result = generate_topic_package(pkgCall.topic, pkgCall.model)]
  /\ UNCHANGED <<contentFile, campaignFile, perfFile, pc, bulk, res, calls,
                 writes, preLog, outcomes, appended, tagCall, rerun>>

-----------------------------------------------------------------------------
(* The pipeline.                                                           *)

OldEntry ==
  [email |-> "old@x.com", persona |-> "Founder", newsletter_id |-> <<"founder", "1">>,
   blog_title |-> "Launch Notes", sent_at |-> Iso(1), provider |-> "resend",
   resend_id |-> "re_0"]

\* an entry written by an earlier version: no persona, a date that is no date
LegacyEntry ==
  [email |-> "b@x.com", blog_title |-> "Launch Notes", sent_at |-> NotIso]

ContentFiles0 ==
  { AbsentFile, InvalidFile, JsonDumpList(<<>>), ObjectFile(PkgLower),
    JsonDumpList(<<ContentLogEntry("AI in Marketing", PkgScenario, 1)>>) }

CampaignFiles0 ==
  { AbsentFile, InvalidFile, JsonDumpList(<<>>), ObjectFile(OldEntry),
    JsonDumpList(<<OldEntry, LegacyEntry>>) }

PipelineInit ==
  /\ contentFile \in ContentFiles0
  /\ campaignFile \in CampaignFiles0
  /\ perfFile = AbsentSnapshot
  /\ pc = "idle"
  /\ bulk = NoBulk
  /\ res = Result("none", "none", "none", "none")
  /\ calls = 0 /\ writes = 0 /\ outcomes = <<>>
  /\ preLog = campaignFile
  /\ appended = [content |-> <<>>, campaign |-> <<>>]
  /\ rerun = FALSE

Init ==
  /\ PipelineInit
  /\ tagCall = TagIdle
  /\ pkgCall = PkgIdle

Next ==
  \/ AppendContent
  \/ LoadLatestCampaign
  \/ SendToContact
  \/ OrchestrateStart
  \/ OrchestrateContact
  \/ OrchestrateFinish
  \/ AnalyzePerformance

Spec == Init /\ [][Next]_vars

-----------------------------------------------------------------------------
(* The round trip of the two logs: both start absent or empty.             *)

RoundTripInit ==
  /\ PipelineInit
  /\ contentFile \in {AbsentFile, JsonDumpList(<<>>)}
  /\ campaignFile \in {AbsentFile, JsonDumpList(<<>>)}
  /\ tagCall = TagIdle
  /\ pkgCall = PkgIdle

SpecRoundTrip == RoundTripInit /\ [][Next]_vars

-----------------------------------------------------------------------------
(* The pure functions, each on every input within the bounds.              *)

PipelineAtRest ==
  /\ PipelineInit
  /\ contentFile = AbsentFile
  /\ campaignFile = AbsentFile

TagInit ==
  /\ PipelineAtRest
  /\ pkgCall = PkgIdle
  /\ tagCall \in {[done |-> FALSE, tag |-> tag, value |-> value, result |-> <<>>] :
                    tag \in {"persona", "campaign"},
                    value \in {[none |-> TRUE, chars |-> <<>>]}
                      \cup {[none |-> FALSE, chars |-> v] : v \in TagInputs}}

SpecTag == TagInit /\ [][SlugifyTag]_vars

PackageInit ==
  /\ PipelineAtRest
  /\ tagCall = TagIdle
  /\ pkgCall \in {[done |-> FALSE, topic |-> topic, model |-> model,
                   result |-> Raised("none")] :
                    topic \in {"AI in Marketing", "Growth Loops"},
                    model \in ModelBehaviours}

SpecPackage == PackageInit /\ [][GenerateTopicPackage]_vars

-----------------------------------------------------------------------------
(* The aggregator on every delivery log within the bounds.                 *)

Sent(persona, email, sent_at) ==
  [email |-> email, persona |-> persona, newsletter_id |-> <<"founder", "1">>,
   blog_title |-> "Launch Notes", sent_at |-> sent_at, provider |-> "resend",
   resend_id |-> "re_0"]

AggEntries ==
  { Sent("Founder", "a@x.com", Iso(1)), Sent("Founder", "b@x.com", Iso(2)),
    Sent("Founder", "a@x.com", NotIso), LegacyEntry,
    Sent("Unknown", "", Iso(2)),
    [persona |-> "Director", blog_title |-> "Growth Loops"] }

AggFiles ==
  {AbsentFile, InvalidFile, ObjectFile(OldEntry)}
    \cup { JsonDumpList(log) :
             log \in UNION { [1..n -> AggEntries] : n \in 0..MaxAggLog } }

\* a snapshot of an earlier run, on a log that held OldEntry only
OldSnapshot ==
  [kind |-> "object", value |-> _aggregate_performance(<<OldEntry>>)]

AggInit ==
  /\ contentFile = AbsentFile
  /\ campaignFile \in AggFiles
  /\ perfFile \in {AbsentSnapshot, OldSnapshot}
  /\ pc = "idle"
  /\ bulk = NoBulk
  /\ res = Result("none", "none", "none", "none")
  /\ calls = 0 /\ writes = 0 /\ outcomes = <<>>
  /\ preLog = campaignFile
  /\ appended = [content |-> <<>>, campaign |-> <<>>]
  /\ rerun = FALSE
  /\ tagCall = TagIdle
  /\ pkgCall = PkgIdle

SpecAgg == AggInit /\ [][AnalyzePerformance]_vars

-----------------------------------------------------------------------------
(* Properties.                                                             *)

PersonaErrors == {"MissingPersona", "UnknownPersona"}

\* C1: in a bulk run a contact is skipped, and the run goes on, exactly when
\* its persona is missing or unknown; every other error raised while a
\* contact is processed (a rejected delivery, a transport failure, a
\* malformed provider response) leaves orchestrate_campaign and ends the
\* batch, and is never turned into a skip.
C1_OnlyPersonaErrorsAreSkipped ==
  res.op = "bulk" =>
    \A i \in 1..Len(outcomes) :
      /\ outcomes[i].error \in PersonaErrors => outcomes[i].outcome = "skipped"
      /\ outcomes[i].error \notin PersonaErrors \cup {"none"} =>
           /\ outcomes[i].outcome = "raised"
           /\ i = Len(outcomes)
           /\ pc = "idle"
           /\ res.error = outcomes[i].error

\* the contacts of the current operation that _process_contact returned an
\* entry for, and those entries, in contact order
Delivered == SelectSeq(outcomes, LAMBDA o : o.outcome = "sent")
DeliveredEntries == [i \in 1..Len(Delivered) |-> Delivered[i].entry]

ScenarioPersonas ==
  {"startup founder", "enterprise marketing director",
   "freelance creative strategist"}

\* C2: a bulk run writes the delivery log at most once and only after the
\* last contact: what it appends is exactly the entries of the contacts
\* delivered successfully, in contact order, after the entries the log
\* already had; with no success (or an abort) the file is left as it was.
\* With the three-persona campaign and the contacts a@x.com (Startup
\* Founder), b@x.com (Unknown Persona), one entry (a@x.com) is appended and
\* b@x.com is skipped.
C2_BulkLogsOnceAtTheEnd ==
  res.op = "bulk" =>
    /\ writes <= 1
    /\ pc = "bulk" => (campaignFile = preLog /\ writes = 0)
    /\ (pc = "idle" /\ res.error # "none") => (campaignFile = preLog /\ writes = 0)
    /\ (pc = "idle" /\ res.error = "none") =>
         /\ \A i \in 1..Len(Delivered) :
              /\ Delivered[i].entry.email = Delivered[i].contact.email
              /\ Delivered[i].entry.persona = Delivered[i].contact.persona
         /\ IF Delivered = <<>>
              THEN campaignFile = preLog /\ writes = 0
              ELSE /\ campaignFile =
                        JsonDumpList(ReadExisting(preLog) \o DeliveredEntries)
                   /\ writes = 1
         /\ ( /\ Len(outcomes) = 2
              /\ outcomes[1].contact = Contact("a@x.com", "Startup Founder")
              /\ outcomes[2].contact = Contact("b@x.com", "Unknown Persona")
              /\ DOMAIN load_latest_campaign(contentFile).campaign.newsletters
                   = ScenarioPersonas
              /\ outcomes[1].outcome = "sent" )
            => /\ Len(campaignFile.items) = Len(ReadExisting(preLog)) + 1
               /\ campaignFile.items[Len(campaignFile.items)].email = "a@x.com"
               /\ outcomes[2].outcome = "skipped"
               /\ outcomes[2].error = "UnknownPersona"

\* C2's case: the scenario run has ended, on a log that held an entry
C2_Witness ==
  /\ res.op = "bulk" /\ pc = "idle" /\ res.error = "none"
  /\ Len(outcomes) = 2
  /\ outcomes[1].contact = Contact("a@x.com", "Startup Founder")
  /\ outcomes[1].outcome = "sent"
  /\ outcomes[2].contact = Contact("b@x.com", "Unknown Persona")
  /\ outcomes[2].outcome = "skipped"
  /\ DOMAIN load_latest_campaign(contentFile).campaign.newsletters
       = ScenarioPersonas
  /\ preLog = ObjectFile(OldEntry)
  /\ Len(campaignFile.items) = 2

\* the newsletters of the latest content entry, as the file holds them
LatestLetters ==
  LET latest == contentFile.items[Len(contentFile.items)]
      package == IF Has(latest, "content_package") THEN latest.content_package
                 ELSE latest
  IN IF Has(package, "newsletters") THEN package.newsletters ELSE <<>>

LetterPersona(i) ==
  IF Has(LatestLetters[i], "persona") THEN LatestLetters[i].persona
  ELSE DefaultPersona(i)

LetterId(i) ==
  IF Has(LatestLetters[i], "newsletter_id") THEN LatestLetters[i].newsletter_id
  ELSE <<Hyphenate(Lower(LetterPersona(i))), Str(i)>>

Entries(file) ==
  IF file.kind \in {"array", "object"} THEN file.items ELSE <<>>

IsPrefix(s, t) == Len(s) <= Len(t) /\ SubSeq(t, 1, Len(s)) = s

\* C4: starting from an absent or empty-list log file, after N appends
\* (save_generated_content, one entry each; save_local_campaign_log, one or
\* more entries each) a reload yields exactly the appended entries, in the
\* order they were appended, newest last.
C4_RoundTrip ==
  /\ IF appended.content = <<>>
       THEN contentFile \in {AbsentFile, JsonDumpList(<<>>)}
       ELSE contentFile.kind = "array" /\ Entries(contentFile) = appended.content
  /\ IF appended.campaign = <<>>
       THEN campaignFile \in {AbsentFile, JsonDumpList(<<>>)}
       ELSE campaignFile.kind = "array" /\ Entries(campaignFile) = appended.campaign

\* C4's case: two different packages were appended one by one, and two
\* deliveries in one batch
C4_Witness ==
  /\ Len(appended.content) = 2
  /\ appended.content[1].topic # appended.content[2].topic
  /\ res.op = "bulk" /\ pc = "idle" /\ writes = 1
  /\ Len(Delivered) = 2
  /\ Len(appended.campaign) = 2

\* C5: no operation deletes an entry of the content log or of the delivery
\* log: whatever the files held before (nothing, an array, a single object,
\* content that does not parse), after each step every entry that was in a
\* log is still there at the same position.
C5_LogsOnlyGrow ==
  [][ /\ IsPrefix(Entries(contentFile), Entries(contentFile'))
      /\ IsPrefix(Entries(campaignFile), Entries(campaignFile')) ]_vars

\* C5's case: a log that was a single JSON object has been appended to
C5_Witness ==
  /\ preLog = ObjectFile(OldEntry)
  /\ writes = 1
  /\ campaignFile.kind = "array"
  /\ Len(campaignFile.items) = 2
  /\ campaignFile.items[1] = OldEntry
  /\ contentFile.kind = "array"
  /\ Len(contentFile.items) = 2
  /\ contentFile.items[1] = PkgLower

\* C6: load_latest_campaign fails with NotFound on an absent content log
\* and with EmptyLog on an empty list, and otherwise builds the campaign
\* from the last element only: after one or more appends the blog title
\* and the persona map are those of the package appended last, and every
\* newsletter of the map is one of that package.
C6_LatestIsCurrent ==
  res.op = "load" =>
    /\ contentFile.kind = "absent" =>
         (res.error = "NotFound" /\ res.class = "FileNotFoundError")
    /\ contentFile = JsonDumpList(<<>>) =>
         (res.error = "EmptyLog" /\ res.class = "ValueError")
    /\ Entries(contentFile) # <<>> =>
         /\ res.error = "none"
         /\ DOMAIN res.value.newsletters =
              {Lower(LetterPersona(i)) : i \in 1..Len(LatestLetters)}
         /\ \A k \in DOMAIN res.value.newsletters :
              \E i \in 1..Len(LatestLetters) :
                /\ Lower(LetterPersona(i)) = k
                /\ res.value.newsletters[k].subject_line
                     = LatestLetters[i].subject_line
    /\ appended.content # <<>> =>
         LET last == appended.content[Len(appended.content)]
         IN /\ res.error = "none"
            /\ contentFile.items[Len(contentFile.items)] = last
            /\ res.value.blog_title =
                 (IF Truthy(last.content_package, "topic")
                    THEN last.content_package.topic ELSE last.topic)

\* C6's case: the campaign was loaded after two appends of different packages
C6_Witness ==
  /\ res.op = "load" /\ res.error = "none"
  /\ Len(appended.content) = 2
  /\ appended.content[1].topic = "Growth Loops"
  /\ appended.content[2].topic = "AI in Marketing"
  /\ res.value.blog_title = "AI in Marketing"
  /\ DOMAIN res.value.newsletters = ScenarioPersonas

PersonaOf(entry) == IF Has(entry, "persona") THEN entry.persona ELSE "Unknown"

\* a log of three entries for "Founder", to a@x.com, a@x.com and b@x.com
IsFounderLog(entries) ==
  /\ Len(entries) = 3
  /\ \A i \in 1..3 : PersonaOf(entries[i]) = "Founder" /\ Has(entries[i], "email")
  /\ <<entries[1].email, entries[2].email, entries[3].email>>
       = <<"a@x.com", "a@x.com", "b@x.com">>

\* C7: the snapshot of a non-empty delivery log has exactly one key per
\* persona value of the log ("Unknown" for an entry without persona); per
\* persona, send_count is the number of its entries, those with a sent_at
\* that does not parse included, and unique_contacts the number of
\* distinct non-empty emails among them.  Three "Founder" entries to
\* a@x.com, a@x.com, b@x.com give send_count 3 and unique_contacts 2.
C7_CountsPerPersona ==
  (res.op = "analyze" /\ res.error = "none") =>
    LET entries == Entries(campaignFile)
        performance == res.value.performance
        of(p) == {i \in 1..Len(entries) : PersonaOf(entries[i]) = p}
        emails(p) == {entries[i].email :
                        i \in {j \in of(p) : /\ Has(entries[j], "email")
                                             /\ entries[j].email # ""}}
    IN /\ DOMAIN performance = {PersonaOf(entries[i]) : i \in 1..Len(entries)}
       /\ \A p \in DOMAIN performance :
            /\ performance[p].send_count = Cardinality(of(p))
            /\ performance[p].unique_contacts = Cardinality(emails(p))
       /\ IsFounderLog(entries) =>
            /\ performance["Founder"].send_count = 3
            /\ performance["Founder"].unique_contacts = 2

\* C7's case: the three "Founder" entries, one with a date that is no date
C7_Witness ==
  /\ res.op = "analyze" /\ res.error = "none"
  /\ IsFounderLog(Entries(campaignFile))
  /\ campaignFile.items[2].sent_at = NotIso
  /\ res.value.performance["Founder"].send_count = 3

\* C8: analyze_performance fails with NotFound when the delivery log is
\* absent and with EmptyLog (a ValueError of its own, not a parse error)
\* when the file holds []; in both cases the snapshot file is left as it was.
C8_MissingOrEmptyLogFails ==
  [][ res'.op = "analyze" =>
        /\ campaignFile.kind = "absent" =>
             /\ res'.error = "NotFound" /\ res'.class = "FileNotFoundError"
             /\ perfFile' = perfFile
        /\ campaignFile = JsonDumpList(<<>>) =>
             /\ res'.error = "EmptyLog" /\ res'.class = "ValueError"
             /\ perfFile' = perfFile ]_vars

\* C8's case: the analysis of [] has failed with a snapshot file in place
C8_Witness ==
  /\ res.op = "analyze" /\ res.error = "EmptyLog"
  /\ campaignFile = JsonDumpList(<<>>)
  /\ perfFile.kind = "object"

\* C9: generate_topic_package never raises: a collaborator call that
\* raises yields {topic, error: "API call failed: ..."}, a response that is
\* not valid JSON yields the error "Model did not return valid JSON." with
\* raw_output, and in every case the package returned carries a topic.
C9_NeverRaises ==
  pkgCall.done =>
    /\ pkgCall.result.raised = "none"
    /\ Has(pkgCall.result.package, "topic")
    /\ pkgCall.model.raises =>
         pkgCall.result.package =
           [topic |-> pkgCall.topic,
            error |-> <<"API call failed: ", "connection error">>]
    /\ ( /\ ~pkgCall.model.raises
         /\ JsonLoads(clean_json_blob(pkgCall.model.text)).kind = "invalid" ) =>
         /\ pkgCall.result.package.error = <<"Model did not return valid JSON.">>
         /\ pkgCall.result.package.raw_output = pkgCall.model.text

\* C10: for every input the tag value has only characters of
\* [A-Za-z0-9_-], does not start or end with "-", has no two "-" in a row
\* and is not empty: when nothing remains the fallback is returned.
C10_TagIsClean ==
  tagCall.done =>
    LET tag == tagCall.result
        given == IF tagCall.value.none THEN <<>> ELSE tagCall.value.chars
    IN /\ tag # <<>>
       /\ \A i \in 1..Len(tag) : IsTagChar(tag[i])
       /\ tag[1] # "-"
       /\ tag[Len(tag)] # "-"
       /\ \A i \in 1..(Len(tag) - 1) : ~(tag[i] = "-" /\ tag[i + 1] = "-")
       /\ (\A i \in 1..Len(given) : ~IsTagChar(given[i]) \/ given[i] = "-")
            => tag = Fallback(tagCall.tag)

\* C10's case: "???" has become the placeholder
C10_Witness ==
  /\ tagCall.done
  /\ ~tagCall.value.none
  /\ tagCall.value.chars = <<"?", "?", "?">>
  /\ tagCall.tag = "persona"
  /\ tagCall.result = <<"p", "e", "r", "s", "o", "n", "a">>

\* C11: analyze_performance run twice in succession on the same delivery
\* log returns the same snapshot both times and leaves performance_log.json
\* with the same content; the snapshot written is the one returned, whatever
\* the file held before.
C11_AggregateIsIdempotent ==
  [][ (res'.op = "analyze" /\ res'.error = "none") =>
        /\ perfFile'.kind = "object"
        /\ perfFile'.value = res'.value.performance
        /\ (res.op = "analyze" /\ res.error = "none") =>
             /\ res'.value.performance = res.value.performance
             /\ perfFile' = perfFile ]_vars

\* C11's case: a second run in a row has returned, on a log whose only
\* persona is not one of the older snapshot
C11_Witness ==
  /\ rerun
  /\ res.op = "analyze" /\ res.error = "none"
  /\ DOMAIN res.value.performance = {"Director"}
  /\ perfFile.value = res.value.performance

\* C12: whenever campaign_log.json holds at least one entry,
\* analyze_performance returns instead of raising, whatever the
\* text-generation collaborator does: the snapshot is in
\* performance_log.json and is returned, and the summary is the
\* collaborator's text or, when producing it failed, the text
\* "Error generating AI summary: <message>".
C12_SummaryFailureIsContained ==
  (res.op = "analyze" /\ Entries(campaignFile) # <<>>) =>
    /\ res.error = "none"
    /\ perfFile.kind = "object"
    /\ perfFile.value = res.value.performance
    /\ DOMAIN res.value.performance
         = {PersonaOf(campaignFile.items[i]) : i \in 1..Len(campaignFile.items)}
    /\ \/ res.value.summary = <<"summary text">>
       \/ /\ Len(res.value.summary) = 2
          /\ res.value.summary[1] = "Error generating AI summary: "
          /\ res.value.summary[2] \in
               {"connection error", "'NoneType' object has no attribute 'strip'"}

\* C12's case: the collaborator's call has raised, and the snapshot of a
\* log of two personas is on disk and returned
C12_Witness ==
  /\ res.op = "analyze" /\ res.error = "none"
  /\ res.value.summary = <<"Error generating AI summary: ", "connection error">>
  /\ DOMAIN res.value.performance = {"Founder", "Director"}
  /\ perfFile.value = res.value.performance

\* C13: when send_newsletter_to_contact or orchestrate_campaign has ended,
\* by returning or by raising, every email the provider accepted (status
\* 200 or 202) during the operation has an entry among those the
\* operation added to campaign_log.json.
C13_AcceptedIsRecorded ==
  (pc = "idle" /\ res.op \in {"send", "bulk"}) =>
    \A i \in 1..Len(outcomes) :
      outcomes[i].accepted =>
        \E j \in (Len(Entries(preLog)) + 1)..Len(Entries(campaignFile)) :
          Entries(campaignFile)[j].email = outcomes[i].contact.email

====
